---- MODULE Spec2Model ----
(***************************************************************************)
(* Astro-Trek: the orbital-mechanics module (src/script/universe/orbit.js).*)
(*                                                                         *)
(* JavaScript numbers are modelled as binary fixed-point numbers: the      *)
(* integer n stands for the real n / Scale.  Sums and differences are      *)
(* exact, every product, quotient and library function (Math.sqrt,         *)
(* Math.sin, Math.cos, Math.atan2) is rounded to the nearest unit, as the  *)
(* IEEE operations round to the nearest representable number.  The model   *)
(* has no signed zero; the one non-finite value the solver can return      *)
(* (0/0) is NaN.                                                           *)
(***************************************************************************)
EXTENDS Integers, Naturals, Sequences, FiniteSets, TLC

\* ------------------------------------------------------------------ numbers

Limb == 2^13
Scale == Limb * Limb

\* The result of 0/0; no finite number of the model is that small.
NaN == -(2^30)

Abs(x) == IF x < 0 THEN -x ELSE x

Sgn(x) == IF x < 0 THEN -1 ELSE 1

Min(x, y) == IF x < y THEN x ELSE y

Max(x, y) == IF x > y THEN x ELSE y

\* A * B / Scale for A, B >= 0, rounded to nearest, in limbs so that no
\* intermediate value leaves 32 bits.
MulAbs(A, B) ==
  LET ah == A \div Limb
      al == A % Limb
      bh == B \div Limb
      bl == B % Limb
  IN  ah * bh + ((ah * bl + al * bh) + ((al * bl + Scale \div 2) \div Limb)) \div Limb

\* x * y
Mul(x, y) == Sgn(x) * Sgn(y) * MulAbs(Abs(x), Abs(y))

\* The binary long division of r * 2^k by B (r < B), q the quotient so far.
RECURSIVE DivBits(_, _, _, _)
DivBits(q, r, B, k) ==
  IF k = 0
    THEN (IF 2 * r >= B THEN q + 1 ELSE q)
    ELSE IF 2 * r >= B
           THEN DivBits(2 * q + 1, 2 * r - B, B, k - 1)
           ELSE DivBits(2 * q, 2 * r, B, k - 1)

\* The largest magnitude of the model: a quotient beyond it stays there.
Huge == 2^30 - 1

\* x / y for y # 0
Div(x, y) ==
  LET A == Abs(x)
      B == Abs(y)
  IN  IF A \div B >= 15
        THEN Sgn(x) * Sgn(y) * Huge
        ELSE Sgn(x) * Sgn(y) * DivBits(A \div B, A % B, B, 26)

\* x / n for an integer literal n > 0
DivInt(x, n) == Sgn(x) * ((2 * Abs(x) + n) \div (2 * n))

\* Math.PI
PI == 210828714

HalfPI == DivInt(PI, 2)

\* Newton's iteration for the square root, from above.
RECURSIVE SqrtIter(_, _)
SqrtIter(x, s) ==
  LET t == (s + Div(x, s)) \div 2
  IN  IF t >= s THEN s ELSE SqrtIter(x, t)

\* Math.sqrt(x): NaN for x < 0
Sqrt(x) == IF x < 0 THEN NaN ELSE IF x = 0 THEN 0 ELSE SqrtIter(x, Max(x, Scale))

\* x reduced to [-PI, PI] by whole turns
Wrap(x) == ((x + PI) % (2 * PI)) - PI

\* The Taylor series of sin(x) / x (n = 2) and of cos(x) (n = 1) in Horner
\* form: 1 - x2 / (n (n + 1)) * (1 - x2 / ((n + 2) (n + 3)) * ...)
RECURSIVE Taylor(_, _, _)
Taylor(x2, n, last) ==
  IF n > last
    THEN Scale
    ELSE Scale - DivInt(Mul(x2, Taylor(x2, n + 2, last)), n * (n + 1))

\* sin(t) or cos(t) for t in [0, PI/4]
Series(t, sine) ==
  LET s == Taylor(Mul(t, t), IF sine THEN 2 ELSE 1, IF sine THEN 10 ELSE 11)
  IN  IF sine THEN Mul(t, s) ELSE s

\* sin(q) or cos(q) for q in [0, PI/2]
Quarter(q, sine) ==
  LET low == 2 * q <= HalfPI
  IN  Series(IF low THEN q ELSE HalfPI - q, low = sine)

\* Math.sin(x)
Sin(x) ==
  LET r == Wrap(x)
      m == Abs(r)
  IN  Sgn(r) * Quarter(IF m <= HalfPI THEN m ELSE PI - m, TRUE)

\* Math.cos(x)
Cos(x) ==
  LET m == Abs(Wrap(x))
  IN  (IF m <= HalfPI THEN 1 ELSE -1) * Quarter(IF m <= HalfPI THEN m ELSE PI - m, FALSE)

\* The series of atan(u) / u in u2 = u * u, from the term of the n-th power on
RECURSIVE AtanSeries(_, _)
AtanSeries(u2, n) ==
  IF n > 25
    THEN 0
    ELSE DivInt(Scale, n) - Mul(u2, AtanSeries(u2, n + 2))

\* atan(u) for |u| <= 1/2
AtanS(u) == Mul(u, AtanSeries(Mul(u, u), 1))

\* atan(t) for 0 <= t <= 1: atan(t) = PI/4 + atan((t - 1) / (t + 1))
Atan01(t) ==
  LET low == 2 * t <= Scale
  IN  (IF low THEN 0 ELSE DivInt(PI, 4))
      + AtanS(IF low THEN t ELSE Div(t - Scale, t + Scale))

\* Math.atan2(y, x): the angle of (x, y) in [-PI, PI]
Atan2(y, x) ==
  LET ay == Abs(y)
      ax == Abs(x)
      at == Atan01(Div(Min(ay, ax), Max(ay, ax)))
      base == IF ax = 0 /\ ay = 0 THEN 0
              ELSE IF ay <= ax THEN at
              ELSE HalfPI - at
  IN  Sgn(y) * (IF x >= 0 THEN base ELSE PI - base)


\* ------------------------------------------------------------------- values

\* What a call returns (or throws).
Number(v) == [kind |-> "number", value |-> v]

Boolean(b) == [kind |-> "boolean", value |-> b]

Point(px, py) == [kind |-> "point", x |-> px, y |-> py]

Undefined == [kind |-> "undefined"]

TypeError == [kind |-> "TypeError"]

\* `return this`
Self == [kind |-> "this"]

\* Nothing returned yet.
None == [kind |-> "none"]

\* ------------------------------------------------------------ KeplerianOrbit

\* The constructor without Math.abs on the eccentricity.
KeplerianOrbitSigned(semimajor_axis, eccentricity, argument_of_periapsis, clockwise) ==
  [semimajor_axis |-> Abs(semimajor_axis),
   eccentricity |-> eccentricity,
   argument_of_periapsis |-> argument_of_periapsis,
   clockwise |-> clockwise]

KeplerianOrbit(semimajor_axis, eccentricity, argument_of_periapsis, clockwise) ==
  [semimajor_axis |-> Abs(semimajor_axis),
   eccentricity |-> Abs(eccentricity),
   argument_of_periapsis |-> argument_of_periapsis,
   clockwise |-> clockwise]

semiminor_axis(o) ==
  LET root == Sqrt(Scale - Mul(o.eccentricity, o.eccentricity))
  IN  IF root = NaN THEN NaN ELSE Mul(o.semimajor_axis, root)

focal_point(o) == Mul(o.eccentricity, o.semimajor_axis)

periapsis(o) == Mul(Scale - o.eccentricity, o.semimajor_axis)

apoapsis(o) == Mul(Scale + o.eccentricity, o.semimajor_axis)

\* rotate_point without the mirroring of y on a clockwise orbit.
rotate_point_unmirrored(o, p) ==
  LET cos == Cos(o.argument_of_periapsis)
      sin == Sin(o.argument_of_periapsis)
  IN  [x |-> Mul(p.x, cos) + Mul(p.y, sin),
       y |-> Mul(p.y, cos) - Mul(p.x, sin)]

rotate_point(o, p) ==
  LET y == IF o.clockwise THEN -p.y ELSE p.y
      cos == Cos(o.argument_of_periapsis)
      sin == Sin(o.argument_of_periapsis)
  IN  [x |-> Mul(p.x, cos) + Mul(y, sin),
       y |-> Mul(y, cos) - Mul(p.x, sin)]

is_clockwise(o) == o.clockwise

\* The orbits the anomaly formulas are finite on: an ellipse of positive size.
Elliptic(o) == o.semimajor_axis > 0 /\ o.eccentricity < Scale

\* ---------------------------------------------------------------- anomalies

TrueAnomaly(angle) == [kind |-> "anomaly", type |-> "TrueAnomaly", angle |-> angle]

EccentricAnomaly(angle) == [kind |-> "anomaly", type |-> "EccentricAnomaly", angle |-> angle]

MeanAnomaly(angle) == [kind |-> "anomaly", type |-> "MeanAnomaly", angle |-> angle]

\* The methods each class defines.
Methods(type) ==
  CASE type = "TrueAnomaly" ->
         {"set_degrees", "get_degrees", "radius", "point", "point2d",
          "eccentric_anomaly", "mean_anomaly"}
    [] type = "EccentricAnomaly" ->
         {"set_degrees", "get_degrees", "radius", "point", "point2d",
          "true_anomaly", "mean_anomaly"}
    [] type = "MeanAnomaly" ->
         {"set_degrees", "get_degrees", "radius_at_mean_anomaly", "point", "point2d",
          "true_anomaly", "eccentric_anomaly"}

\* angle * (Math.PI / 180.0), for a whole number of degrees
set_degrees(this, degrees) ==
  [this EXCEPT !.angle = (PI \div 180) * degrees + DivInt((PI % 180) * degrees, 180)]

\* 2^16 units per degree: a number of degrees has no room at Scale.
DegreeScale == 2^16

\* this.angle * (180.0 / Math.PI), in units of 1 / DegreeScale
get_degrees(this) == Mul(this.angle, Div(180 * DegreeScale, PI))

\* TrueAnomaly.radius
TrueRadius(angle, o) ==
  Div(Mul(o.semimajor_axis, Scale - Mul(o.eccentricity, o.eccentricity)),
      Scale + Mul(o.eccentricity, Cos(angle)))

\* TrueAnomaly.point
TruePoint(angle, o) ==
  LET radius == TrueRadius(angle, o)
      a == angle + o.argument_of_periapsis
  IN  [x |-> Mul(Cos(a), radius), y |-> Mul(Sin(a), radius)]

\* TrueAnomaly.point2d
TruePoint2d(angle, o) == rotate_point(o, TruePoint(angle, o))

\* EccentricAnomaly.point
EccentricPoint(angle, o) ==
  [x |-> Mul(Cos(angle), o.semimajor_axis) - focal_point(o),
   y |-> Mul(Sin(angle), semiminor_axis(o))]

\* EccentricAnomaly.point2d
EccentricPoint2d(angle, o) == rotate_point(o, EccentricPoint(angle, o))

\* EccentricAnomaly.radius: it calls this.position(orbit)
EccentricRadius(angle, o) ==
  IF "position" \in Methods("EccentricAnomaly")
    THEN LET p == EccentricPoint(angle, o)
         IN  Number(Sqrt(Mul(p.x, p.x) + Mul(p.y, p.y)))
    ELSE TypeError

\* EccentricAnomaly.true_anomaly
EccentricToTrue(angle, o) ==
  LET p == EccentricPoint(angle, o)
  IN  TrueAnomaly(Atan2(p.y, p.x))

\* EccentricAnomaly.mean_anomaly
EccentricToMean(angle, o) == MeanAnomaly(angle - Mul(o.eccentricity, Sin(angle)))

\* TrueAnomaly.eccentric_anomaly
TrueToEccentric(angle, o) ==
  LET p == TruePoint(angle, o)
  IN  EccentricAnomaly(Atan2(Div(p.y, semiminor_axis(o)),
                             Div(p.x + focal_point(o), o.semimajor_axis)))

\* TrueAnomaly.mean_anomaly
TrueToMean(angle, o) == EccentricToMean(TrueToEccentric(angle, o).angle, o)

\* ------------------------------------------- MeanAnomaly.eccentric_anomaly

\* 0.00001 * (Math.PI / 180)
Tolerance == Mul(DivInt(Scale, 100000), DivInt(PI, 180))

\* The loop's condition off by one, i <= 10.
LoopInclusive(i) == i <= 10

\* The loop's condition, i < 10
LoopContinues(i) == i < 10

\* f = E - e * sin(E) - M
Residual(E, M, e) == E - Mul(e, Sin(E)) - M

\* 1.0 - e * cos(E)
Derivative(E, e) == Scale - Mul(e, Cos(E))

clamp(v, min, max) == Min(Max(v, min), max)

\* clamp(f / d, -e / 2.0, e / 2.0): a quotient by zero is an infinity, which
\* the clamp cuts to a bound, or NaN (0 / 0), which it lets through.
ClampedStep(f, d, e) ==
  LET bound == DivInt(e, 2)
  IN  IF d # 0 THEN clamp(Div(f, d), -bound, bound)
      ELSE IF f > 0 THEN bound
      ELSE IF f < 0 THEN -bound
      ELSE NaN

\* The update with its sign slipped, eccentric_anomaly += clamp(...).
NewtonUpdateAdding(E, M, e) ==
  LET step == ClampedStep(Residual(E, M, e), Derivative(E, e), e)
  IN  IF step = NaN THEN NaN ELSE E + step

\* eccentric_anomaly -= clamp(...)
NewtonUpdate(E, M, e) ==
  LET step == ClampedStep(Residual(E, M, e), Derivative(E, e), e)
  IN  IF step = NaN THEN NaN ELSE E - step

\* Math.abs(f) < tolerance
WithinTolerance(f) == Abs(f) < Tolerance

\* What a MeanAnomaly method makes of the EccentricAnomaly it asked for.
Delegate(method, E, o) ==
  CASE method = "eccentric_anomaly" -> EccentricAnomaly(E)
    [] method = "true_anomaly" -> EccentricToTrue(E, o)
    [] method = "point" ->
         LET p == EccentricPoint(E, o) IN Point(p.x, p.y)
    [] method = "point2d" ->
         LET p == EccentricPoint2d(E, o) IN Point(p.x, p.y)
    [] method = "radius_at_mean_anomaly" -> Undefined

\* -------------------------------------------------------------------- state

VARIABLES
  args,      \* the arguments the orbit's constructor was called with
  orbit,     \* the KeplerianOrbit
  anomaly,   \* the anomaly object the driver holds
  op,        \* the call in progress or just returned: the methods chained in it
  arg,       \* the arguments of its first method (the orbit aside)
  ret,       \* what it returned
  newton     \* MeanAnomaly.eccentric_anomaly: its locals and how it returned

VARIABLES
  parent,    \* scene graph: the parent field of each Object
  children,  \* scene graph: the children array of the Canvas and of each Object
  call,      \* scene graph: the last method called, with its receiver and argument
  animate,   \* Canvas.animate
  pending,   \* the frame callbacks requestAnimationFrame holds
  time,      \* Canvas.time, in steps taken
  paused     \* pause() was the last of play() and pause() to be called

sceneVars == <<parent, children, call>>

loopVars == <<animate, pending, time, paused>>

orbitVars == <<args, orbit, anomaly, op, arg, ret, newton>>

vars == <<args, orbit, anomaly, op, arg, ret, newton, sceneVars, loopVars>>

\* Bounds of the model.
AngleDen == 4

MaxChain == 1

SemimajorInputs == {-((3 * Scale) \div 4), Scale}

\* 0, -0.5, 0.9, 1 - 2^-20 (nearly parabolic) and 1.5
EccentricityInputs ==
  {0, -(Scale \div 2), DivInt(9 * Scale, 10), Scale - Scale \div (2^20), (3 * Scale) \div 2}

PeriapsisInputs == {0, HalfPI}

\* The angles k * PI / AngleDen inside (-PI, PI), and the small angle 2^-23
AngleInputs ==
  {Sgn(k) * DivInt(Abs(k) * PI, AngleDen) : k \in (1 - AngleDen)..(AngleDen - 1)}
    \cup {Scale \div (2^23)}

DegreeInputs == {-90, 270}

PointInputs == {[x |-> Scale, y |-> Scale], [x |-> -(Scale \div 2), y |-> 2 * Scale]}

AnomalyTypes == {"TrueAnomaly", "EccentricAnomaly", "MeanAnomaly"}

\* ------------------------------------------------------------ Canvas, Object

Null == "null"

\* Bounds of the scene graph and of the animation loop.
MaxChildren == 2

MaxPending == 3

MaxTime == 20

Objects == {"a", "b"}

Nodes == {"canvas"} \cup Objects

\* The test of the filter in removeChild, child => child !== child: its
\* parameter hides the child to remove.
FilterKeeps(child) == child # child

\* removeChild(child), of the container p
removeChild(g, p, child) ==
  [parent |-> [g.parent EXCEPT ![child] = Null],
   children |-> [g.children EXCEPT ![p] = SelectSeq(@, FilterKeeps)]]

\* removeParent(), of the object c
removeParent(g, c) ==
  IF g.parent[c] # Null THEN removeChild(g, g.parent[c], c)
  ELSE [g EXCEPT !.parent[c] = Null]

\* addChild(child), of the container p
addChild(g, p, child) ==
  LET h == removeParent(g, child)
  IN  [parent |-> [h.parent EXCEPT ![child] = p],
       children |-> [h.children EXCEPT ![p] = Append(@, child)]]

\* setParent(p), of the object c
setParent(g, c, p) ==
  IF p # Null THEN addChild(g, p, c)
  ELSE [g EXCEPT !.parent[c] = Null]

\* The scene graph as the methods see it.
Graph == [parent |-> parent, children |-> children]

\* new Canvas(element) and new Object() for each object
SceneInit ==
  /\ parent = [c \in Objects |-> Null]
  /\ children = [p \in Nodes |-> <<>>]
  /\ call = <<>>

\* The Canvas constructor leaves animate unset, which tests as false.
LoopInit ==
  /\ animate = FALSE
  /\ pending = 0
  /\ time = 0
  /\ paused = FALSE

\* p.addChild(c), for an object c other than p
CallAddChild ==
  \E p \in Nodes, c \in Objects :
    /\ p # c
    /\ Len(children[p]) < MaxChildren
    /\ LET h == addChild(Graph, p, c)
       IN  parent' = h.parent /\ children' = h.children
    /\ call' = <<"addChild", p, c>>
    /\ UNCHANGED <<orbitVars, loopVars>>

\* p.removeChild(c), for a child c of p
CallRemoveChild ==
  \E p \in Nodes, c \in Objects :
    /\ parent[c] = p
    /\ LET h == removeChild(Graph, p, c)
       IN  parent' = h.parent /\ children' = h.children
    /\ call' = <<"removeChild", p, c>>
    /\ UNCHANGED <<orbitVars, loopVars>>

\* c.setParent(p), for a container p other than c, or null
CallSetParent ==
  \E c \in Objects, p \in Nodes \cup {Null} :
    /\ p # c
    /\ p # Null => Len(children[p]) < MaxChildren
    /\ LET h == setParent(Graph, c, p)
       IN  parent' = h.parent /\ children' = h.children
    /\ call' = <<"setParent", c, p>>
    /\ UNCHANGED <<orbitVars, loopVars>>

\* c.removeParent()
CallRemoveParent ==
  \E c \in Objects :
    /\ LET h == removeParent(Graph, c)
       IN  parent' = h.parent /\ children' = h.children
    /\ call' = <<"removeParent", c>>
    /\ UNCHANGED <<orbitVars, loopVars>>

\* step(delta): time += delta, with delta > 0; update() and redraw() write
\* nothing the loop reads.
step(t) == t + 1

\* play(): it sets animate and runs its callback once at once, which takes a
\* step and, animate being set, asks for the next frame.
CallPlay ==
  /\ pending < MaxPending
  /\ time < MaxTime
  /\ animate' = TRUE
  /\ time' = step(time)
  /\ pending' = pending + 1
  /\ paused' = FALSE
  /\ UNCHANGED <<orbitVars, sceneVars>>

\* pause()
CallPause ==
  /\ animate' = FALSE
  /\ paused' = TRUE
  /\ UNCHANGED <<pending, time, orbitVars, sceneVars>>

\* The browser runs a callback it holds: a step, then the test of animate.
Frame ==
  /\ pending > 0
  /\ time < MaxTime
  /\ time' = step(time)
  /\ pending' = IF animate THEN pending ELSE pending - 1
  /\ UNCHANGED <<animate, paused, orbitVars, sceneVars>>

NewtonIdle == [pc |-> "idle", method |-> "none", i |-> 0, E |-> 0, f |-> 0, exit |-> "none"]

Init ==
  /\ args \in [semimajor_axis : SemimajorInputs, eccentricity : EccentricityInputs,
               argument_of_periapsis : PeriapsisInputs, clockwise : BOOLEAN]
  /\ orbit = KeplerianOrbit(args.semimajor_axis, args.eccentricity,
                            args.argument_of_periapsis, args.clockwise)
  /\ \E type \in AnomalyTypes, angle \in AngleInputs :
       anomaly = [kind |-> "anomaly", type |-> type, angle |-> angle]
  /\ op = <<>>
  /\ arg = <<>>
  /\ ret = None
  /\ newton = NewtonIdle
  /\ SceneInit
  /\ LoopInit

\* The driver is between two calls.
Ready == newton.pc = "idle" /\ op = <<>>

\* A method that returns at once and leaves every object as it is.
Return(method, a, value) ==
  /\ Ready
  /\ op' = <<method>>
  /\ arg' = a
  /\ ret' = value
  /\ UNCHANGED <<sceneVars, loopVars, args, orbit, anomaly, newton>>

IsTrue == anomaly.type = "TrueAnomaly"

IsEccentric == anomaly.type = "EccentricAnomaly"

IsMean == anomaly.type = "MeanAnomaly"

\* --------------------------------------------------- KeplerianOrbit's methods

CallSemiminorAxis == Return("semiminor_axis", <<>>, Number(semiminor_axis(orbit)))

CallFocalPoint == Return("focal_point", <<>>, Number(focal_point(orbit)))

CallPeriapsis == Return("periapsis", <<>>, Number(periapsis(orbit)))

CallApoapsis == Return("apoapsis", <<>>, Number(apoapsis(orbit)))

CallRotatePoint ==
  \E p \in PointInputs :
    LET q == rotate_point(orbit, p)
    IN  Return("rotate_point", <<p>>, Point(q.x, q.y))

CallIsClockwise == Return("is_clockwise", <<>>, Boolean(is_clockwise(orbit)))

\* -------------------------------------------------- the anomalies' methods

CallSetDegrees ==
  \E degrees \in DegreeInputs :
    /\ Ready
    /\ anomaly' = set_degrees(anomaly, degrees)
    /\ op' = <<"set_degrees">>
    /\ arg' = <<degrees>>
    /\ ret' = Self
    /\ UNCHANGED <<sceneVars, loopVars, args, orbit, newton>>

CallGetDegrees == Return("get_degrees", <<>>, Number(get_degrees(anomaly)))

CallTrueRadius ==
  IsTrue /\ Elliptic(orbit)
  /\ Return("radius", <<>>, Number(TrueRadius(anomaly.angle, orbit)))

\* TrueAnomaly.point keeping the angle it folded the argument of periapsis
\* into, this.angle += orbit.argument_of_periapsis.
CallTruePointFolding ==
  /\ Ready
  /\ IsTrue /\ Elliptic(orbit)
  /\ op' = <<"point">>
  /\ arg' = <<>>
  /\ ret' = LET p == TruePoint(anomaly.angle, orbit) IN Point(p.x, p.y)
  /\ anomaly' = [anomaly EXCEPT !.angle = @ + orbit.argument_of_periapsis]
  /\ UNCHANGED <<sceneVars, loopVars, args, orbit, newton>>

CallTruePoint ==
  IsTrue /\ Elliptic(orbit)
  /\ LET p == TruePoint(anomaly.angle, orbit) IN Return("point", <<>>, Point(p.x, p.y))

CallTruePoint2d ==
  IsTrue /\ Elliptic(orbit)
  /\ LET p == TruePoint2d(anomaly.angle, orbit) IN Return("point2d", <<>>, Point(p.x, p.y))

CallTrueToEccentric ==
  IsTrue /\ Elliptic(orbit)
  /\ Return("eccentric_anomaly", <<>>, TrueToEccentric(anomaly.angle, orbit))

CallTrueToMean ==
  IsTrue /\ Elliptic(orbit)
  /\ Return("mean_anomaly", <<>>, TrueToMean(anomaly.angle, orbit))

CallEccentricRadius ==
  IsEccentric /\ Elliptic(orbit)
  /\ Return("radius", <<>>, EccentricRadius(anomaly.angle, orbit))

CallEccentricPoint ==
  IsEccentric /\ Elliptic(orbit)
  /\ LET p == EccentricPoint(anomaly.angle, orbit) IN Return("point", <<>>, Point(p.x, p.y))

CallEccentricPoint2d ==
  IsEccentric /\ Elliptic(orbit)
  /\ LET p == EccentricPoint2d(anomaly.angle, orbit) IN Return("point2d", <<>>, Point(p.x, p.y))

CallEccentricToTrue ==
  IsEccentric /\ Elliptic(orbit)
  /\ Return("true_anomaly", <<>>, EccentricToTrue(anomaly.angle, orbit))

CallEccentricToMean ==
  IsEccentric /\ Elliptic(orbit)
  /\ Return("mean_anomaly", <<>>, EccentricToMean(anomaly.angle, orbit))

\* The MeanAnomaly methods that start with this.eccentric_anomaly(orbit), and
\* eccentric_anomaly itself: the solver is entered with E = M.
MeanMethods == {"eccentric_anomaly", "true_anomaly", "point", "point2d", "radius_at_mean_anomaly"}

CallMean ==
  \E method \in MeanMethods :
    /\ Ready
    /\ IsMean
    /\ method # "eccentric_anomaly" => Elliptic(orbit)
    /\ op' = <<method>>
    /\ arg' = <<>>
    /\ ret' = None
    /\ newton' = [pc |-> "loop", method |-> method, i |-> 0, E |-> anomaly.angle,
                  f |-> 0, exit |-> "none"]
    /\ UNCHANGED <<sceneVars, loopVars, args, orbit, anomaly>>

\* m.radius(orbit): MeanAnomaly defines no method of that name.
CallMeanRadius ==
  /\ IsMean
  /\ Return("radius", <<>>,
            IF "radius" \in Methods("MeanAnomaly")
              THEN Number(TrueRadius(anomaly.angle, orbit))
              ELSE TypeError)

\* One pass of the loop: the residual at E, the clamped update of E, and the
\* return when the residual was within the tolerance.
NewtonIterate ==
  /\ newton.pc = "loop"
  /\ LoopContinues(newton.i)
  /\ LET f == Residual(newton.E, anomaly.angle, orbit.eccentricity)
         E == NewtonUpdate(newton.E, anomaly.angle, orbit.eccentricity)
     IN  IF WithinTolerance(f)
           THEN /\ newton' = [newton EXCEPT !.pc = "idle", !.E = E, !.f = f,
                                            !.exit = "tolerance"]
                /\ ret' = Delegate(newton.method, E, orbit)
           ELSE /\ newton' = [newton EXCEPT !.E = E, !.f = f, !.i = @ + 1]
                /\ ret' = ret
  /\ UNCHANGED <<sceneVars, loopVars, args, orbit, anomaly, op, arg>>

\* The loop ran out: the return after it.
NewtonExhausted ==
  /\ newton.pc = "loop"
  /\ ~LoopContinues(newton.i)
  /\ newton' = [newton EXCEPT !.pc = "idle", !.exit = "budget"]
  /\ ret' = Delegate(newton.method, newton.E, orbit)
  /\ UNCHANGED <<sceneVars, loopVars, args, orbit, anomaly, op, arg>>

\* The closed-form conversions and the positions of a returned anomaly.
Convert(method, a, o) ==
  CASE a.type = "TrueAnomaly" /\ method = "eccentric_anomaly" -> TrueToEccentric(a.angle, o)
    [] a.type = "TrueAnomaly" /\ method = "mean_anomaly" -> TrueToMean(a.angle, o)
    [] a.type = "TrueAnomaly" /\ method = "point" ->
         LET p == TruePoint(a.angle, o) IN Point(p.x, p.y)
    [] a.type = "TrueAnomaly" /\ method = "point2d" ->
         LET p == TruePoint2d(a.angle, o) IN Point(p.x, p.y)
    [] a.type = "EccentricAnomaly" /\ method = "true_anomaly" -> EccentricToTrue(a.angle, o)
    [] a.type = "EccentricAnomaly" /\ method = "mean_anomaly" -> EccentricToMean(a.angle, o)
    [] a.type = "EccentricAnomaly" /\ method = "point" ->
         LET p == EccentricPoint(a.angle, o) IN Point(p.x, p.y)
    [] a.type = "EccentricAnomaly" /\ method = "point2d" ->
         LET p == EccentricPoint2d(a.angle, o) IN Point(p.x, p.y)
    [] OTHER -> TypeError

\* A chained call, x.m1(orbit).m2(orbit): a conversion or a position of the
\* anomaly just returned.
Chain ==
  \E method \in {"eccentric_anomaly", "true_anomaly", "mean_anomaly", "point", "point2d"} :
    /\ newton.pc = "idle"
    /\ ret.kind = "anomaly"
    /\ ret.type # "MeanAnomaly"
    /\ method \in Methods(ret.type)
    /\ ret.angle # NaN
    /\ Elliptic(orbit)
    /\ Len(op) <= MaxChain
    /\ op' = Append(op, method)
    /\ ret' = Convert(method, ret, orbit)
    /\ UNCHANGED <<sceneVars, loopVars, args, orbit, anomaly, arg, newton>>

\* The driver drops what the call returned; the solver's locals are gone.
Discard ==
  /\ newton.pc = "idle"
  /\ op # <<>>
  /\ op' = <<>>
  /\ arg' = <<>>
  /\ ret' = None
  /\ newton' = NewtonIdle
  /\ UNCHANGED <<sceneVars, loopVars, args, orbit, anomaly>>

Next ==
  \/ CallSemiminorAxis
  \/ CallFocalPoint
  \/ CallPeriapsis
  \/ CallApoapsis
  \/ CallRotatePoint
  \/ CallIsClockwise
  \/ CallSetDegrees
  \/ CallGetDegrees
  \/ CallTrueRadius
  \/ CallTruePoint
  \/ CallTruePoint2d
  \/ CallTrueToEccentric
  \/ CallTrueToMean
  \/ CallEccentricRadius
  \/ CallEccentricPoint
  \/ CallEccentricPoint2d
  \/ CallEccentricToTrue
  \/ CallEccentricToMean
  \/ CallMean
  \/ CallMeanRadius
  \/ NewtonIterate
  \/ NewtonExhausted
  \/ Chain
  \/ Discard

Spec == Init /\ [][Next]_vars

\* The orbit module at rest, while the scene graph or the loop is exercised.
OrbitInit ==
  /\ args = [semimajor_axis |-> Scale, eccentricity |-> 0,
             argument_of_periapsis |-> 0, clockwise |-> FALSE]
  /\ orbit = KeplerianOrbit(Scale, 0, 0, FALSE)
  /\ anomaly = TrueAnomaly(0)
  /\ op = <<>>
  /\ arg = <<>>
  /\ ret = None
  /\ newton = NewtonIdle

\* The state after construction, for the scene graph and the loop.
CanvasInit == OrbitInit /\ SceneInit /\ LoopInit

SceneNext ==
  \/ CallAddChild
  \/ CallRemoveChild
  \/ CallSetParent
  \/ CallRemoveParent

SceneSpec == CanvasInit /\ [][SceneNext]_vars

LoopNext ==
  \/ CallPlay
  \/ CallPause
  \/ Frame

LoopSpec == CanvasInit /\ [][LoopNext]_vars

\* ------------------------------------------------------------------- claims

\* The last call has returned, and it was x.m(...) on the held anomaly.
Returned(methods) == newton.pc = "idle" /\ op = methods

\* Rounding noise allowed where two computations of one quantity are compared.
Slack == 4

\* C1: for every orbit with a in (0, 1e6], e in [0, 0.9], argument of
\* periapsis in [-PI, PI] and every M in [-PI, PI],
\* MeanAnomaly(M).true_anomaly(orbit).mean_anomaly(orbit).angle equals M
\* within the Newton tolerance.
C1_RoundTrip ==
  (/\ IsMean
   /\ Returned(<<"true_anomaly", "mean_anomaly">>)
   /\ orbit.semimajor_axis > 0
   /\ orbit.eccentricity <= DivInt(9 * Scale, 10)
   /\ Abs(orbit.argument_of_periapsis) <= PI
   /\ Abs(anomaly.angle) <= PI)
  => /\ ret.kind = "anomaly"
     /\ ret.type = "MeanAnomaly"
     /\ Abs(ret.angle - anomaly.angle) <= Tolerance

C3_SolverTerminates ==
  /\ [](newton.i <= 10)
  /\ []((IsMean /\ Returned(<<"eccentric_anomaly">>))
          => /\ ret = EccentricAnomaly(newton.E)
             /\ newton.exit \in {"tolerance", "budget"})
  /\ [][newton.pc = "loop"
          => \/ newton'.pc = "idle"
             \/ newton'.pc = "loop" /\ newton'.i = newton.i + 1]_vars

\* The loop ran out with the residual still beyond the tolerance, and an
\* EccentricAnomaly was returned all the same.
C3_Witness ==
  /\ IsMean
  /\ Returned(<<"eccentric_anomaly">>)
  /\ newton.exit = "budget"
  /\ newton.i = 10
  /\ ~WithinTolerance(newton.f)
  /\ ret.kind = "anomaly"

\* C4: no public operation of the orbital module raises an error: every
\* accessor, geometry method and conversion method of a KeplerianOrbit, a
\* TrueAnomaly, an EccentricAnomaly or a MeanAnomaly returns a value.
C4_NoErrorRaised ==
  (newton.pc = "idle" /\ op # <<>> /\ op[1] \in Methods(anomaly.type))
  => ret.kind # "TypeError"

\* C5: EccentricAnomaly.radius(orbit) returns the Euclidean norm of
\* EccentricAnomaly.point(orbit), and that value agrees with
\* TrueAnomaly.radius(orbit) at the true anomaly of the same position.
C5_EccentricRadius ==
  (IsEccentric /\ Returned(<<"radius">>))
  => /\ ret.kind = "number"
     /\ LET p == EccentricPoint(anomaly.angle, orbit)
        IN  ret.value = Sqrt(Mul(p.x, p.x) + Mul(p.y, p.y))
     /\ Abs(ret.value - TrueRadius(EccentricToTrue(anomaly.angle, orbit).angle, orbit))
          <= Slack

\* C6: MeanAnomaly's point, point2d, true_anomaly and radius each convert via
\* eccentric_anomaly(orbit) first and return the corresponding result for that
\* EccentricAnomaly; the radius operation returns the distance from the focus
\* as a number.
C6_MeanDelegates ==
  (IsMean /\ newton.pc = "idle")
  => /\ Returned(<<"point">>)
          => ret = LET p == EccentricPoint(newton.E, orbit) IN Point(p.x, p.y)
     /\ Returned(<<"point2d">>)
          => ret = LET p == EccentricPoint2d(newton.E, orbit) IN Point(p.x, p.y)
     /\ Returned(<<"true_anomaly">>)
          => ret = EccentricToTrue(newton.E, orbit)
     /\ (Returned(<<"radius_at_mean_anomaly">>) \/ Returned(<<"radius">>))
          => /\ ret.kind = "number"
             /\ ret.value = TrueRadius(EccentricToTrue(newton.E, orbit).angle, orbit)

\* C7: all four types are immutable after construction: no operation changes
\* the angle of an anomaly or a field of a KeplerianOrbit.
C7_Immutable == [][anomaly' = anomaly /\ orbit' = orbit]_vars

\* C7, amended: the KeplerianOrbit is never changed, and the one operation
\* that changes an anomaly is set_degrees(d), which overwrites the angle of
\* its receiver with d * PI / 180.
C7_OnlySetDegreesMutates ==
  [][/\ orbit' = orbit
     /\ anomaly' # anomaly
          => /\ op' = <<"set_degrees">>
             /\ anomaly'.type = anomaly.type
             /\ anomaly'.angle
                  = (PI \div 180) * arg'[1] + DivInt((PI % 180) * arg'[1], 180)]_vars

\* set_degrees(270) has overwritten the angle of an anomaly built inside (-PI, PI).
C7_Witness ==
  /\ op = <<"set_degrees">>
  /\ arg = <<270>>
  /\ ret = Self
  /\ anomaly.angle > PI

\* C8: for an orbit with e = 0, semiminor_axis() = semimajor_axis, the focal
\* distance is 0, periapsis() = apoapsis() = semimajor_axis, and the
\* conversions True->Eccentric, Eccentric->True, Eccentric->Mean and
\* Mean->Eccentric of an angle (taken inside (-PI, PI)) return that angle.
C8_CircularDegeneracy ==
  orbit.eccentricity = 0
  => /\ semiminor_axis(orbit) = orbit.semimajor_axis
     /\ focal_point(orbit) = 0
     /\ periapsis(orbit) = orbit.semimajor_axis
     /\ apoapsis(orbit) = orbit.semimajor_axis
     /\ (/\ Abs(anomaly.angle) < PI
         /\ \/ IsTrue /\ Returned(<<"eccentric_anomaly">>)
            \/ IsEccentric /\ Returned(<<"true_anomaly">>)
            \/ IsEccentric /\ Returned(<<"mean_anomaly">>)
            \/ IsMean /\ Returned(<<"eccentric_anomaly">>))
        => /\ ret.kind = "anomaly"
           /\ Abs(ret.angle - anomaly.angle) <= Slack

\* C9: the constructor stores semimajor_axis >= 0 and eccentricity >= 0
\* whatever the signs of its inputs, and whenever the stored eccentricity is
\* in [0, 1), 0 <= periapsis() <= semimajor_axis <= apoapsis() and
\* periapsis() + apoapsis() = 2 semimajor_axis.
C9_ApsisInvariant ==
  /\ orbit.semimajor_axis >= 0
  /\ orbit.eccentricity >= 0
  /\ orbit.eccentricity < Scale
       => /\ 0 <= periapsis(orbit)
          /\ periapsis(orbit) <= orbit.semimajor_axis
          /\ orbit.semimajor_axis <= apoapsis(orbit)
          /\ periapsis(orbit) + apoapsis(orbit) = 2 * orbit.semimajor_axis

\* C9, amended: as C9, with periapsis() + apoapsis() equal to
\* 2 semimajor_axis up to the rounding of the two products.
C9_ApsisOrdering ==
  /\ orbit.semimajor_axis >= 0
  /\ orbit.eccentricity >= 0
  /\ orbit.eccentricity < Scale
       => /\ 0 <= periapsis(orbit)
          /\ periapsis(orbit) <= orbit.semimajor_axis
          /\ orbit.semimajor_axis <= apoapsis(orbit)
          /\ Abs(periapsis(orbit) + apoapsis(orbit) - 2 * orbit.semimajor_axis) <= 1

\* Negative inputs were normalised, and apoapsis() of the ellipse was asked for.
C9_Witness ==
  /\ args.semimajor_axis < 0
  /\ args.eccentricity < 0
  /\ orbit.eccentricity > 0
  /\ orbit.eccentricity < Scale
  /\ Returned(<<"apoapsis">>)
  /\ ret.value > orbit.semimajor_axis

\* C10: with argument_of_periapsis = 0, rotate_point of one point {x, y},
\* y # 0, on two orbits that differ only in the clockwise flag returns the
\* same x and y components of opposite sign: y for clockwise = false, -y for
\* clockwise = true.
C10_Orientation ==
  (Returned(<<"rotate_point">>) /\ orbit.argument_of_periapsis = 0)
  => LET p == arg[1]
         twin == rotate_point([orbit EXCEPT !.clockwise = ~@], p)
     IN  /\ ret.x = twin.x
         /\ ret.y = -twin.y
         /\ ret.x = p.x
         /\ ret.y = IF orbit.clockwise THEN -p.y ELSE p.y

\* rotate_point has mirrored a point on a clockwise orbit.
C10_Witness ==
  /\ Returned(<<"rotate_point">>)
  /\ orbit.argument_of_periapsis = 0
  /\ orbit.clockwise
  /\ arg[1].y > 0
  /\ ret.y < 0

\* C11: whenever MeanAnomaly.eccentric_anomaly returns before its 10 passes
\* are used up (on an ellipse, e < 1), the E it returns satisfies
\* |E - e sin E - M| < tolerance itself.
C11_ReturnedWithinTolerance ==
  (/\ IsMean
   /\ Returned(<<"eccentric_anomaly">>)
   /\ newton.exit = "tolerance"
   /\ orbit.eccentricity < Scale)
  => /\ ret = EccentricAnomaly(newton.E)
     /\ ret.angle # NaN
     /\ WithinTolerance(Residual(ret.angle, anomaly.angle, orbit.eccentricity))

\* Rounding noise allowed between two positions computed along different
\* paths (the quotient of TrueAnomaly.radius amplifies it).
PointSlack == 64

\* C12: for any orbit (e up to 0.9 here) and any eccentric anomaly E,
\* EccentricAnomaly(E).true_anomaly(orbit).point(orbit) equals
\* EccentricAnomaly(E).point(orbit), and the same for point2d (equal up to
\* rounding).
C12_FramesAgree ==
  (IsEccentric /\ orbit.eccentricity <= DivInt(9 * Scale, 10))
  => /\ Returned(<<"true_anomaly", "point">>)
          => LET p == EccentricPoint(anomaly.angle, orbit)
             IN  /\ ret.kind = "point"
                 /\ Abs(ret.x - p.x) <= PointSlack
                 /\ Abs(ret.y - p.y) <= PointSlack
     /\ Returned(<<"true_anomaly", "point2d">>)
          => LET p == EccentricPoint2d(anomaly.angle, orbit)
             IN  /\ ret.kind = "point"
                 /\ Abs(ret.x - p.x) <= PointSlack
                 /\ Abs(ret.y - p.y) <= PointSlack

\* The number of times x occurs in the array s.
Occurrences(s, x) == Cardinality({i \in 1..Len(s) : s[i] = x})

\* C13: after any sequence of addChild, removeChild, setParent and
\* removeParent calls, c.parent = p if and only if c is an element of
\* p.children, for every object c and container p; and removeChild(c) leaves
\* every other child of its container in the children array.
C13_SceneGraphConsistent ==
  /\ [](\A c \in Objects, p \in Nodes :
          parent[c] = p <=> Occurrences(children[p], c) > 0)
  /\ [][\A p \in Nodes, c \in Objects :
          call' = <<"removeChild", p, c>>
            => \A x \in Objects \ {c} :
                 Occurrences(children'[p], x) = Occurrences(children[p], x)]_vars

\* C14: at most one frame callback is pending at a time, and once pause()
\* has been called no step is taken until play() is called again.
C14_OneChainAndPauseStops ==
  /\ [](pending <= 1)
  /\ [][(paused /\ paused') => time' = time]_vars
====
